---- MODULE Spec2Model ----
(***************************************************************************)
(* Model of the multi-platform downloader: downloader.py (Downloader,      *)
(* BatchDownloader, main) and api.py (the /api/download handler).          *)
(*                                                                         *)
(* Text is modelled as a sequence of chunks (short strings); the empty     *)
(* Python string is the empty sequence.  A path is a string, None is the   *)
(* string "None", and the filesystem is the set of paths that exist.       *)
(***************************************************************************)
EXTENDS Integers, Sequences, FiniteSets, TLC

\* ------------------------------------------------------------------ bounds
MaxUrls == 3
MaxWorkers == 2
MaxHost == 3
PipeCap == 2

\* --------------------------------------------------------------- data model
None == "None"

Platform ==
  {"YOUTUBE", "INSTAGRAM", "TIKTOK", "TWITTER", "FACEBOOK", "DAILYMOTION",
   "VIMEO", "UNKNOWN"}

DownloadType == {"VIDEO", "AUDIO", "POST", "STORY", "PROFILE_PIC", "HIGHLIGHTS"}

YT_DLP_PATH == "yt-dlp"

COOKIES_FILE == "insta.txt"

SUPPORTED_PLATFORMS ==
  << <<"youtube.com", "YOUTUBE">>, <<"youtu.be", "YOUTUBE">>,
     <<"instagram.com", "INSTAGRAM">>, <<"tiktok.com", "TIKTOK">>,
     <<"twitter.com", "TWITTER">>, <<"x.com", "TWITTER">>,
     <<"facebook.com", "FACEBOOK">>, <<"fb.watch", "FACEBOOK">>,
     <<"dailymotion.com", "DAILYMOTION">>, <<"dai.ly", "DAILYMOTION">>,
     <<"vimeo.com", "VIMEO">> >>

\* DownloadConfig(...): the fields the orchestration reads, with the
\* dataclass defaults for the ones a caller leaves out.
DownloadConfig(url, platform, download_type, output_dir, format, cookies_file) ==
  [url |-> url, platform |-> platform, download_type |-> download_type,
   output_dir |-> output_dir, format |-> format, cookies_file |-> cookies_file,
   concurrent_fragments |-> 1, retries |-> 10,
   rate_limit |-> None, proxy |-> None]

\* ------------------------------------------------------------------- text
\* The chunks URLs are made of.  SchemeSep is "<scheme>://"; a Delim chunk
\* ends the network location.
SchemeSep == "https://"

Delims == {"/", "?", "#"}

\* str.lower() on a chunk.
lower(c) ==
  CASE c = "YouTube.com" -> "youtube.com"
    [] c = "Instagram.COM" -> "instagram.com"
    [] OTHER -> c

\* The table keys that occur as substrings of a chunk (Python's `key in s`,
\* case-sensitive).
KeysIn(c) ==
  CASE c = "youtube.com" -> {"youtube.com"}
    [] c = "www.youtube.com" -> {"youtube.com"}
    [] c = "instagram.com" -> {"instagram.com"}
    [] c = "vimeo.com" -> {"vimeo.com"}
    [] c = "netflix.com" -> {"x.com"}
    [] c = "watch?u=youtube.com" -> {"youtube.com"}
    [] OTHER -> {}

\* `key in text` for a text given as chunks.
Occurs(key, text) == \E i \in 1..Len(text) : key \in KeysIn(text[i])

\* str(text): the chunks joined into one string.
RECURSIVE Join(_)
Join(text) == IF text = <<>> THEN "" ELSE text[1] \o Join(Tail(text))

\* urlparse(url).netloc: what follows "<scheme>://" up to the first
\* delimiter; empty when the URL has no "//".
RECURSIVE UpToDelim(_)
UpToDelim(text) ==
  IF text = <<>> \/ text[1] \in Delims THEN <<>>
  ELSE <<text[1]>> \o UpToDelim(Tail(text))

netloc(url) ==
  IF url # <<>> /\ url[1] = SchemeSep THEN UpToDelim(Tail(url)) ELSE <<>>

LowerText(text) == [i \in 1..Len(text) |-> lower(text[i])]

\* ----------------------------------------------------- platform detection
\* The first table entry, in declared order, whose key occurs in `text`.
RECURSIVE FirstMatch(_, _)
FirstMatch(table, text) ==
  IF table = <<>> THEN "UNKNOWN"
  ELSE IF Occurs(table[1][1], text) THEN table[1][2]
  ELSE FirstMatch(Tail(table), text)

\* urlparse(url) raises ValueError ("Invalid IPv6 URL") for a network
\* location with an opening bracket and no closing one.
urlparse_raises(url) == \E i \in 1..Len(netloc(url)) : netloc(url)[i] = "["

\* Downloader.detect_platform: the platform returned, or the exception that
\* leaves it.
detect_platform(url) ==
  IF urlparse_raises(url) THEN "ValueError"
  ELSE FirstMatch(SUPPORTED_PLATFORMS, LowerText(netloc(url)))

\* api.detect_platform: the keys are looked up in the whole URL, as given.
api_detect_platform(url) == FirstMatch(SUPPORTED_PLATFORMS, url)

\* --------------------------------------------------------------- validation
\* Mutant: the output directory is made before the checks.
validate_config_MkdirFirst(config, files) ==
  LET made == files \cup {config.output_dir} IN
  IF config.url = <<>> THEN
    [err |-> "EmptyURL", exc |-> "ValueError", ok |-> FALSE, files |-> made]
  ELSE IF config.platform = "UNKNOWN" THEN
    [err |-> "UnsupportedPlatform", exc |-> "ValueError", ok |-> FALSE,
     files |-> made]
  ELSE IF config.cookies_file # None /\ config.cookies_file \notin made THEN
    [err |-> "CookiesNotFound", exc |-> "FileNotFoundError", ok |-> FALSE,
     files |-> made]
  ELSE [err |-> "none", exc |-> "none", ok |-> TRUE, files |-> made]

\* Mutant: the cookies file is looked for before the output directory is made.
validate_config_CookiesFirst(config, files) ==
  IF config.url = <<>> THEN
    [err |-> "EmptyURL", exc |-> "ValueError", ok |-> FALSE, files |-> files]
  ELSE IF config.platform = "UNKNOWN" THEN
    [err |-> "UnsupportedPlatform", exc |-> "ValueError", ok |-> FALSE,
     files |-> files]
  ELSE IF config.cookies_file # None /\ config.cookies_file \notin files THEN
    [err |-> "CookiesNotFound", exc |-> "FileNotFoundError", ok |-> FALSE,
     files |-> files]
  ELSE [err |-> "none", exc |-> "none", ok |-> TRUE,
        files |-> files \cup {config.output_dir}]

\* Downloader.validate_config: the fault raised (err "none" when it returns
\* normally, and then ok: every check was made and passed) and the
\* filesystem it leaves.
validate_config(config, files) ==
  IF config.url = <<>> THEN
    [err |-> "EmptyURL", exc |-> "ValueError", ok |-> FALSE, files |-> files]
  ELSE IF config.platform = "UNKNOWN" THEN
    [err |-> "UnsupportedPlatform", exc |-> "ValueError", ok |-> FALSE,
     files |-> files]
  ELSE
    LET made == files \cup {config.output_dir} IN
    IF config.cookies_file # None /\ config.cookies_file \notin made THEN
      [err |-> "CookiesNotFound", exc |-> "FileNotFoundError", ok |-> FALSE,
       files |-> made]
    ELSE [err |-> "none", exc |-> "none", ok |-> TRUE, files |-> made]

\* Mutant: the constructor validates without the platform check.
Downloader_init_AnyPlatform(config, files) ==
  validate_config([config EXCEPT !.platform = "YOUTUBE"], files)

\* Downloader.__init__
Downloader_init(config, files) == validate_config(config, files)

\* ------------------------------------------------------ invocation builder
YouTubeTemplate == "%(title)s [%(id)s].%(ext)s"

UploaderTemplate == "%(uploader)s - %(title)s [%(id)s].%(ext)s"

\* Downloader.get_output_template
get_output_template(config) ==
  LET base == IF config.platform \in {"INSTAGRAM", "TIKTOK", "TWITTER"}
              THEN UploaderTemplate ELSE YouTubeTemplate
  IN  IF config.download_type = "AUDIO"
      THEN config.output_dir \o "/" \o "Audio" \o "/" \o base
      ELSE config.output_dir \o "/" \o "Video" \o "/" \o base

YouTubeFormat == "bestvideo[ext=mp4]+bestaudio[ext=m4a]/best[ext=mp4]/best"

\* Mutant: the platform is looked up before the download type.
get_default_format_PlatformFirst(config) ==
  IF config.platform = "YOUTUBE" THEN YouTubeFormat
  ELSE IF config.download_type = "AUDIO" THEN "bestaudio/best"
  ELSE "best"

\* Downloader.get_default_format
get_default_format(config) ==
  IF config.download_type = "AUDIO" THEN "bestaudio/best"
  ELSE IF config.platform = "YOUTUBE" THEN YouTubeFormat
  ELSE "best"

\* Python truthiness of an Optional[str]: None and "" are false.
Truthy(s) == s # None /\ s # ""

\* Mutant: the default cookie file is taken for every platform.
ResolveCookies_DefaultForAll(config, files) ==
  IF config.cookies_file # None /\ config.cookies_file \in files
  THEN config.cookies_file
  ELSE IF COOKIES_FILE \in files THEN COOKIES_FILE
  ELSE None

\* The cookie file build_yt_dlp_command settles on (None when there is none).
ResolveCookies(config, files) ==
  IF config.cookies_file # None /\ config.cookies_file \in files
  THEN config.cookies_file
  ELSE IF config.platform = "YOUTUBE" /\ COOKIES_FILE \in files
  THEN COOKIES_FILE
  ELSE None

\* Mutant: Instagram takes the browser's cookies whatever file there is.
CookieArgs_BrowserFirst(config, files) ==
  IF config.platform = "INSTAGRAM" THEN <<"--cookies-from-browser", "chrome">>
  ELSE IF ResolveCookies(config, files) # None
  THEN <<"--cookies", ResolveCookies(config, files)>>
  ELSE <<>>

\* The cookie arguments of the command.
CookieArgs(config, files) ==
  LET cookies_file == ResolveCookies(config, files) IN
  IF cookies_file # None THEN <<"--cookies", cookies_file>>
  ELSE IF config.platform = "INSTAGRAM" THEN <<"--cookies-from-browser", "chrome">>
  ELSE <<>>

\* Downloader.build_yt_dlp_command
build_yt_dlp_command(config, files) ==
  <<YT_DLP_PATH, "--no-playlist", "--ignore-errors",
    "--retries", ToString(config.retries),
    "--concurrent-fragments", ToString(config.concurrent_fragments),
    "--progress", "--newline", "--console-title",
    "-o", get_output_template(config)>>
  \o (IF Truthy(config.format) THEN <<"-f", config.format>>
      ELSE <<"-f", get_default_format(config)>>)
  \o (IF Truthy(config.rate_limit) THEN <<"--limit-rate", config.rate_limit>> ELSE <<>>)
  \o (IF Truthy(config.proxy) THEN <<"--proxy", config.proxy>> ELSE <<>>)
  \o CookieArgs(config, files)
  \o <<Join(config.url)>>

\* ------------------------------------------------------------------ state
VARIABLES
  mode,         \* the entry point in use: "batch" (main), "http" (api.py),
                \* "single" (a caller of Downloader)
  urls,         \* the input list of URLs (main / download_batch)
  config,       \* the template DownloadConfig main builds
  max_workers,  \* the pool size
  request,      \* the JSON body of the POST /api/download request (has_url:
                \* whether it has the key "url")
  files,        \* the filesystem: the paths that exist
  pc,           \* where the caller (main / download_batch / the handler) is
  unit,         \* per unit of work: the Downloader it runs and its outcome
                \* (plan, seen: a command the caller had it build beforehand)
  started,      \* the units in the order workers took them off the queue
  last,         \* per URL, the unit whose attempt completed last so far
  finished,     \* as_completed: the futures found finished when it was called
  notified,     \* as_completed: futures a waiter was notified of, in order
  results,      \* download_batch's dict, as (url, value) pairs in insertion order
  outcome,      \* what the caller ends with: exit code, summary, response
  io            \* the pipes between download and its engine, where they
                \* are followed: what the engine has left to write, what
                \* each pipe holds, and where download is

vars ==
  <<mode, urls, config, max_workers, request, files, pc, unit, started,
    last, finished, notified, results, outcome, io>>

\* The URLs the inputs are drawn from.
U_empty == <<>>

U_yt == <<SchemeSep, "youtube.com", "/", "watch?v=abc">>

U_ig == <<SchemeSep, "instagram.com", "/", "p/xyz">>

U_other == <<SchemeSep, "example.org", "/", "v">>

U_query == <<SchemeSep, "example.org", "/", "watch?u=youtube.com">>

U_case == <<SchemeSep, "YouTube.com", "/", "watch?v=abc">>

U_bare == <<"youtube.com", "/", "watch?v=abc">>

NoConfig == DownloadConfig(<<>>, "UNKNOWN", None, None, None, None)

\* A unit nobody has touched yet.
NewUnit ==
  [phase |-> "pending", config |-> NoConfig, validated |-> FALSE, cmd |-> <<>>,
   proc |-> "none", err |-> "none", out |-> "none",
   plan |-> <<>>, seen |-> {}]

NoRequest == [has_url |-> FALSE, url |-> <<>>, format_id |-> None]

NoOutcome ==
  [code |-> -1, failed |-> <<>>, total |-> -1, status |-> -1, platform |-> "none"]

\* The pipes of a download whose input and output are not followed.
NoIO ==
  [left_out |-> 0, left_err |-> 0, stdout |-> 0, stderr |-> 0,
   engine |-> "none", returncode |-> 0, at |-> "none"]

Units == DOMAIN unit

Executing == {j \in Units : unit[j].phase \in {"init", "ready", "running"}}

Done(j) == unit[j].phase = "done"

\* ------------------------------------------------------------------- Init
Quiet ==
  /\ started = <<>>
  /\ last = <<>>
  /\ finished = {}
  /\ notified = <<>>
  /\ results = <<>>
  /\ outcome = NoOutcome
  /\ io = NoIO

\* The templates main builds (platform, cookies file; the cookies file does
\* not exist) and the URLs a batch is drawn from under each.
Templates == {<<"UNKNOWN", None>>, <<"UNKNOWN", "cookies.txt">>, <<"TIKTOK", None>>}

BatchUrls(t) ==
  IF t[1] # "UNKNOWN" THEN {U_yt, U_ig, U_other}
  ELSE IF t[2] = None THEN {U_yt, U_other}
  ELSE {U_empty, U_yt, U_other}

\* With the platform given by the template the URLs of a batch differ in
\* name only, and the lists are taken up to renaming: a URL not seen before
\* is the next of U_yt, U_ig, U_other.
Rank(url) == CASE url = U_yt -> 1 [] url = U_ig -> 2 [] OTHER -> 3

InOrderOfFirstUse(l) ==
  \A i \in 1..Len(l) : \A r \in 1..(Rank(l[i]) - 1) :
    \E k \in 1..(i - 1) : Rank(l[k]) = r

BatchLists(t) ==
  LET lists == UNION {[1..n -> BatchUrls(t)] : n \in 0..MaxUrls} IN
  IF t[1] = "UNKNOWN" THEN lists ELSE {l \in lists : InOrderOfFirstUse(l)}

\* main: the URL list and the template config built from the arguments.
InitBatch ==
  /\ mode = "batch"
  /\ \E t \in Templates :
       /\ config = DownloadConfig(<<>>, t[1], None, "downloads", None, t[2])
       /\ urls \in BatchLists(t)
  /\ max_workers \in 1..MaxWorkers
  /\ request = NoRequest
  /\ files = {}
  /\ pc = "main"
  /\ unit = [j \in 1..Len(urls) |-> NewUnit]
  /\ Quiet

\* A caller of the library: Downloader(config).download() on any config.
InitSingle ==
  /\ mode = "single"
  /\ urls = <<>>
  /\ \E url \in {U_empty, U_yt},
        platform \in {"YOUTUBE", "INSTAGRAM", "VIMEO", "UNKNOWN"},
        download_type \in {None, "VIDEO", "AUDIO", "POST"},
        format \in {None, "", "18"},
        cookies_file \in {None, "cookies.txt"} :
       config = DownloadConfig(url, platform, download_type, "out", format, cookies_file)
  /\ max_workers = 1
  /\ request = NoRequest
  /\ files \in SUBSET {"out", "cookies.txt", COOKIES_FILE}
  /\ pc = "caller"
  /\ unit = [j \in {1} |-> [NewUnit EXCEPT !.phase = "init", !.config = config]]
  /\ Quiet

\* POST /api/download with a JSON body.
InitHttp ==
  /\ mode = "http"
  /\ urls = <<>>
  /\ config = NoConfig
  /\ max_workers = 1
  /\ \E has_url \in BOOLEAN,
        url \in {U_empty, U_yt, U_ig, U_other, U_query, U_case, U_bare},
        format_id \in {None, "", "18"} :
       /\ has_url \/ url = U_empty
       /\ request = [has_url |-> has_url, url |-> url, format_id |-> format_id]
  /\ files \in SUBSET {COOKIES_FILE}
  /\ pc = "request"
  /\ unit = [j \in {1} |-> NewUnit]
  /\ Quiet

Init == InitBatch \/ InitSingle \/ InitHttp

\* The URLs detect_platform is tried on: an optional scheme, up to MaxHost
\* chunks of network location (names, a user-info separator, a bracket) and
\* an optional path.
HostChunks ==
  {"youtube.com", "YouTube.com", "netflix.com", "example.org", "@", "["}

Paths == {<<>>, <<"/", "v">>, <<"/", "watch?u=youtube.com">>}

DetectUrls ==
  {pre \o host \o path :
     pre \in {<<>>, <<SchemeSep>>},
     host \in UNION {[1..n -> HostChunks] : n \in 0..MaxHost},
     path \in Paths}

\* A call of Downloader.detect_platform(url).
InitDetect ==
  /\ mode = "detect"
  /\ urls = <<>>
  /\ config = NoConfig
  /\ max_workers = 1
  /\ \E url \in DetectUrls :
       request = [has_url |-> TRUE, url |-> url, format_id |-> None]
  /\ files = {}
  /\ pc = "call"
  /\ unit = <<>>
  /\ Quiet

\* ------------------------------------------------------ the result mapping
Keys(d) == {d[i][1] : i \in 1..Len(d)}

Get(d, k) == (CHOOSE i \in 1..Len(d) : d[i][1] = k)

\* d[k] = v on an insertion-ordered dict: a present key keeps its position.
SetItem(d, k, v) ==
  IF k \in Keys(d) THEN [d EXCEPT ![Get(d, k)] = <<k, v>>]
  ELSE Append(d, <<k, v>>)

\* ------------------------------------------------------ a Downloader's steps
\* downloader = Downloader(config): __init__ validates; a fault ends the
\* unit with that exception.
Constructed(u, fs) ==
  LET v == Downloader_init(u.config, fs) IN
  [files |-> v.files,
   unit |-> IF v.err = "none"
            THEN [u EXCEPT !.phase = "ready", !.validated = v.ok]
            ELSE [u EXCEPT !.phase = "done", !.err = v.err, !.out = v.exc]]

\* Popen raises (no such executable, permission denied): the except clauses
\* of download log it and download returns False.
SpawnFailed(u) == [u EXCEPT !.phase = "done", !.proc = "failed", !.out = "False"]

\* downloader.download() up to Popen: the command is built, then the engine
\* is spawned (spawned) or Popen raises.
Launched(u, fs, spawned) ==
  LET built == [u EXCEPT !.cmd = build_yt_dlp_command(u.config, fs)] IN
  IF spawned THEN [built EXCEPT !.phase = "running", !.proc = "running"]
  ELSE SpawnFailed(built)

\* Mutant: the exit status is not looked at.
ReturnFor_IgnoreStatus(returncode) == IF returncode < 0 THEN "False" ELSE "True"

\* What download returns for an exit status.
ReturnFor(returncode) == IF returncode # 0 THEN "False" ELSE "True"

\* download after the engine closed its output and exited: wait, then the
\* exit status decides.
Exited(u, returncode) ==
  [u EXCEPT !.phase = "done",
            !.proc = IF returncode = 0 THEN "exit0" ELSE "exit1",
            !.out = ReturnFor(returncode)]

\* Reading the engine's output raises (undecodable bytes): download logs it
\* and returns False without waiting for the process.
ReadFailed(u) == [u EXCEPT !.phase = "done", !.proc = "unreaped", !.out = "False"]

\* What a future keeps of a unit that ended: its result or its exception
\* (err names the validation fault behind the exception).
Future(u) == [NewUnit EXCEPT !.phase = "done", !.err = u.err, !.out = u.out]

\* A unit ends.  In a batch its future completes (set_result or
\* set_exception) and a waiter as_completed has installed is notified; the
\* other callers hold the Downloader itself.
Complete(j, u) ==
  IF mode = "batch"
  THEN /\ unit' = [unit EXCEPT ![j] = Future(u)]
       /\ last' = [url \in DOMAIN last \cup {urls[j]} |->
                   IF url = urls[j] THEN j ELSE last[url]]
       /\ notified' = IF pc = "collect" THEN Append(notified, j) ELSE notified
  ELSE /\ unit' = [unit EXCEPT ![j] = u]
       /\ UNCHANGED <<last, notified>>

\* unit[j] becomes u, which may have ended.
Step(j, u) ==
  IF u.phase = "done" THEN Complete(j, u)
  ELSE /\ unit' = [unit EXCEPT ![j] = u]
       /\ UNCHANGED <<last, notified>>

\* ------------------------------------------------------------ batch units
\* Mutant: the platform is detected whatever the template says.
DerivedConfig_AlwaysDetect(url, template) ==
  [template EXCEPT !.url = url, !.platform = detect_platform(url)]

\* BatchDownloader._download_single, the derived config.
DerivedConfig(url, template) ==
  [template EXCEPT
     !.url = url,
     !.platform = IF template.platform # "UNKNOWN" THEN template.platform
                  ELSE detect_platform(url)]

\* Mutant: the work queue is last in, first out.
NextQueued_LastIn(queued) == CHOOSE j \in queued : \A k \in queued : j >= k

\* The unit a worker takes next: the work queue is first in, first out.
NextQueued(queued) == CHOOSE j \in queued : \A k \in queued : j <= k

\* Mutant: a worker that ran a unit never takes another.
PoolHasRoom_WorkersRetire(executing, workers) ==
  Cardinality(executing) < workers /\ Len(started) < workers

\* Mutant: the pool runs one unit more than it has workers.
PoolHasRoom_OneMore(executing, workers) == Cardinality(executing) <= workers

\* Whether a worker is free to take a unit.
PoolHasRoom(executing, workers) == Cardinality(executing) < workers

\* A pool worker takes the next unit off the queue and runs
\* _download_single up to the point where it waits for the engine.
Start(j) ==
  /\ mode = "batch"
  /\ LET queued == {k \in Units : unit[k].phase = "queued"} IN
       /\ queued # {}
       /\ j = NextQueued(queued)
  /\ PoolHasRoom(Executing, max_workers)
  /\ started' = Append(started, j)
  /\ \E derived \in {DerivedConfig(urls[j], config)} :
     \E c \in {IF derived.platform = "ValueError"
                THEN [files |-> files,
                      unit |-> [unit[j] EXCEPT !.phase = "done",
                                               !.out = "ValueError"]]
                ELSE Constructed([unit[j] EXCEPT !.config = derived], files)} :
        /\ files' = c.files
        /\ IF c.unit.phase = "done" THEN Complete(j, c.unit)
           ELSE \E spawned \in BOOLEAN : Step(j, Launched(c.unit, c.files, spawned))
  /\ UNCHANGED <<io, mode, urls, config, max_workers, request, pc, finished,
                 results, outcome>>

\* The engine exits.  Under the HTTP handler the model also follows whether
\* it left a file in the temporary directory.
TempDir == "tmp"

VideoFile == "tmp/Video/video.mp4"

Exit(j) ==
  /\ unit[j].phase = "running"
  /\ \E returncode \in {0, 1} : Step(j, Exited(unit[j], returncode))
  /\ \E produced \in (IF mode = "http" THEN BOOLEAN ELSE {FALSE}) :
       files' = IF produced THEN files \cup {VideoFile} ELSE files
  /\ UNCHANGED <<io, mode, urls, config, max_workers, request, pc, started,
                 finished, results, outcome>>

ReadFault(j) ==
  /\ unit[j].phase = "running"
  /\ Step(j, ReadFailed(unit[j]))
  /\ UNCHANGED <<io, mode, urls, config, max_workers, request, files, pc, started,
                 finished, results, outcome>>

\* ------------------------------------------------------- a library caller
\* downloader = Downloader(config)
Construct ==
  /\ mode = "single"
  /\ unit[1].phase = "init"
  /\ LET c == Constructed(unit[1], files) IN
       /\ files' = c.files
       /\ Step(1, c.unit)
  /\ UNCHANGED <<io, mode, urls, config, max_workers, request, pc, started,
                 finished, results, outcome>>

\* downloader.download(), up to Popen (the HTTP handler's call as well).
Launch ==
  /\ mode \in {"single", "http"}
  /\ unit[1].phase = "ready"
  /\ \E spawned \in BOOLEAN : Step(1, Launched(unit[1], files, spawned))
  /\ UNCHANGED <<io, mode, urls, config, max_workers, request, files, pc, started,
                 finished, results, outcome>>

\* The caller asks the constructed Downloader for its command, without
\* running it: downloader.build_yt_dlp_command().  plan is the list
\* returned, seen the filesystem at the time of the call.
Build ==
  /\ mode = "single"
  /\ unit[1].phase = "ready"
  /\ unit[1].plan = <<>>
  /\ unit' = [unit EXCEPT
       ![1].plan = build_yt_dlp_command(unit[1].config, files),
       ![1].seen = files]
  /\ UNCHANGED <<io, mode, urls, config, max_workers, request, files, pc, started,
                 last, finished, notified, results, outcome>>

\* Another process creates or removes a cookie file between the
\* construction of the Downloader and the call of download.
Environment(f) ==
  /\ mode = "single"
  /\ unit[1].phase = "ready"
  /\ f \in {"cookies.txt", COOKIES_FILE}
  /\ files' = IF f \in files THEN files \ {f} ELSE files \cup {f}
  /\ UNCHANGED <<io, mode, urls, config, max_workers, request, pc, unit, started,
                 last, finished, notified, results, outcome>>

\* ------------------------------------------------- main and download_batch
\* main, up to the call of download_batch: an input file that cannot be
\* read (readable is false) and an empty URL list are exit code 1.
MainBegin ==
  /\ mode = "batch"
  /\ pc = "main"
  /\ \E readable \in BOOLEAN :
       IF ~readable \/ urls = <<>>
       THEN /\ pc' = "exited"
            /\ outcome' = [outcome EXCEPT !.code = 1]
       ELSE /\ pc' = "submit"
            /\ UNCHANGED outcome
  /\ UNCHANGED <<io, mode, urls, config, max_workers, request, files, unit, started,
                 last, finished, notified, results>>

\* The dict comprehension: executor.submit(self._download_single, url,
\* config) for every url of the list, in order; each call queues one unit.
Submit ==
  /\ mode = "batch"
  /\ pc = "submit"
  /\ \A j \in Units : unit[j].phase = "pending"
  /\ unit' = [j \in Units |-> [unit[j] EXCEPT !.phase = "queued"]]
  /\ UNCHANGED <<io, mode, urls, config, max_workers, request, files, pc, started,
                 last, finished, notified, results, outcome>>

\* as_completed(futures) is entered: the futures already finished are set
\* aside (they are yielded first, in no particular order) and a waiter is
\* installed on the others.
AsCompleted ==
  /\ mode = "batch"
  /\ pc = "submit"
  /\ \A j \in Units : unit[j].phase # "pending"
  /\ finished' = {j \in Units : Done(j)}
  /\ pc' = "collect"
  /\ UNCHANGED <<io, mode, urls, config, max_workers, request, files, unit, started,
                 last, notified, results, outcome>>

\* Mutant: the clause names ValueError only.
Caught_ValueErrorOnly(exc) == exc = "ValueError"

\* `except Exception` (download_batch's loop, download): the exceptions the
\* clause catches.  ValueError and the OSError family derive from Exception.
Caught(exc) == exc \in {"ValueError", "FileNotFoundError", "OSError"}

\* future.result() inside the try: the value the loop stores for a unit.
Recorded(out) == IF out \in {"True", "False"} THEN out = "True" ELSE FALSE

\* Mutant: a raised fault is logged and no entry is stored for its URL.
RecordOutcome_DropFaults(d, url, out) ==
  IF out \in {"True", "False"} THEN SetItem(d, url, out = "True") ELSE d

\* The body of the collection loop: results[url] = future.result(), or
\* False when it raises.
RecordOutcome(d, url, out) == SetItem(d, url, Recorded(out))

\* The futures as_completed may yield next: any of those found finished at
\* the call, then the notified ones in the order of their completion.
Yieldable(found, queue) ==
  IF found # {} THEN found
  ELSE IF queue # <<>> THEN {Head(queue)}
  ELSE {}

\* The futures found finished at the call that were not yielded yet.
Found == {j \in finished : Done(j)}

\* The collection loop takes the future as_completed yields.  An exception
\* the except clause does not catch leaves download_batch.
Collect(j) ==
  /\ mode = "batch"
  /\ pc = "collect"
  /\ j \in Yieldable(Found, notified)
  /\ notified' = IF Found = {} THEN Tail(notified) ELSE notified
  /\ unit' = [unit EXCEPT ![j] = [@ EXCEPT !.phase = "collected"]]
  /\ IF unit[j].out \in {"True", "False"} \/ Caught(unit[j].out)
     THEN /\ results' = RecordOutcome(results, urls[j], unit[j].out)
          /\ pc' = pc
     ELSE /\ pc' = "aborted"
          /\ UNCHANGED results
  /\ UNCHANGED <<io, mode, urls, config, max_workers, request, files, started,
                 last, finished, outcome>>

\* The loop ends once every future was yielded; the pool shuts down and
\* download_batch returns the mapping.
Return ==
  /\ mode = "batch"
  /\ pc = "collect"
  /\ \A j \in Units : unit[j].phase = "collected"
  /\ pc' = "returned"
  /\ UNCHANGED <<io, mode, urls, config, max_workers, request, files, unit, started,
                 last, finished, notified, results, outcome>>

\* The URLs main lists as failed: results.items() in the dict's order.
RECURSIVE FailedIn(_)
FailedIn(d) ==
  IF d = <<>> THEN <<>>
  ELSE (IF d[1][2] THEN <<>> ELSE <<d[1][1]>>) \o FailedIn(Tail(d))

\* Mutant: every entry counts as a success.
Successful_CountsAll(d) == Cardinality({i \in 1..Len(d) : d[i][2] \in BOOLEAN})

\* main: the number of successful entries.
Successful(d) == Cardinality({i \in 1..Len(d) : d[i][2]})

\* main's summary and exit code.
Summary ==
  /\ mode = "batch"
  /\ pc = "returned"
  /\ pc' = "exited"
  /\ outcome' = [outcome EXCEPT
       !.total = Len(results),
       !.failed = FailedIn(results),
       !.code = IF Successful(results) < Len(results) THEN 1 ELSE 0]
  /\ UNCHANGED <<io, mode, urls, config, max_workers, request, files, unit, started,
                 last, finished, notified, results>>

\* ------------------------------------------------- POST /api/download
\* `not url or not format_code` on the JSON body: an absent key is None, and
\* None and "" are false.
MissingField(data) ==
  \/ ~data.has_url
  \/ data.url = <<>>
  \/ ~Truthy(data.format_id)

\* Mutant: the directory is emptied and kept.
rmtree_ContentsOnly(dir, fs) == {f \in fs : ~(dir = TempDir /\ f = VideoFile)}

\* shutil.rmtree(dir)
rmtree(dir, fs) == {f \in fs : ~(f = dir \/ (dir = TempDir /\ f = VideoFile))}

\* download_video up to Downloader(config): a missing field is a 400;
\* otherwise the temporary directory is made, the platform detected and the
\* Downloader constructed; a fault it raises is caught and answered by 500.
Handle ==
  /\ mode = "http"
  /\ pc = "request"
  /\ IF MissingField(request)
     THEN /\ pc' = "responded"
          /\ outcome' = [outcome EXCEPT !.status = 400]
          /\ UNCHANGED <<files, unit>>
     ELSE LET temp_dir == TempDir
              platform == api_detect_platform(request.url)
              c == Constructed(
                     [unit[1] EXCEPT !.config =
                        DownloadConfig(request.url, platform, "VIDEO", temp_dir,
                                       request.format_id, None)],
                     files \cup {temp_dir})
          IN /\ files' = c.files
             /\ unit' = [unit EXCEPT ![1] = c.unit]
             /\ IF c.unit.phase = "done"
                THEN /\ pc' = "responded"
                     /\ outcome' = [outcome EXCEPT !.status = 500]
                ELSE /\ pc' = "downloading"
                     /\ UNCHANGED outcome
  /\ UNCHANGED <<io, mode, urls, config, max_workers, request, started, last,
                 finished, notified, results>>

\* download_video once download has returned: a failure, or no file in the
\* temporary directory, removes the directory and answers 500; otherwise
\* the file is sent.
Respond ==
  /\ mode = "http"
  /\ pc = "downloading"
  /\ unit[1].phase = "done"
  /\ IF unit[1].out # "True" \/ VideoFile \notin files
     THEN /\ files' = rmtree(unit[1].config.output_dir, files)
          /\ pc' = "responded"
          /\ outcome' = [outcome EXCEPT !.status = 500]
     ELSE /\ pc' = "streaming"
          /\ outcome' = [outcome EXCEPT !.status = 200]
          /\ UNCHANGED files
  /\ UNCHANGED <<io, mode, urls, config, max_workers, request, unit, started,
                 last, finished, notified, results>>

\* The response stream closes: call_on_close removes the directory.
Close ==
  /\ mode = "http"
  /\ pc = "streaming"
  /\ files' = rmtree(unit[1].config.output_dir, files)
  /\ pc' = "closed"
  /\ UNCHANGED <<io, mode, urls, config, max_workers, request, unit, started,
                 last, finished, notified, results, outcome>>

\* ------------------------------------------------------------------- Next
\* The steps of a batch run (main, download_batch, the pool and the engines).
NextBatch ==
  \/ MainBegin
  \/ Submit
  \/ AsCompleted
  \/ Return
  \/ Summary
  \/ \E j \in Units : Collect(j)
  \/ \E j \in Units : ReadFault(j)
  \/ \E j \in Units : Exit(j)
  \/ \E j \in Units : Start(j)

\* The steps of a library caller and of the HTTP handler.
NextCaller ==
  \/ Construct
  \/ Build
  \/ Launch
  \/ \E f \in {"cookies.txt", COOKIES_FILE} : Environment(f)
  \/ Handle
  \/ Respond
  \/ Close

\* Downloader.detect_platform(url) returns or raises.
Detect ==
  /\ mode = "detect"
  /\ pc = "call"
  /\ pc' = "returned"
  /\ outcome' = [outcome EXCEPT !.platform = detect_platform(request.url)]
  /\ UNCHANGED <<io, mode, urls, config, max_workers, request, files, unit, started,
                 last, finished, notified, results>>

Next == NextBatch \/ NextCaller

Spec == Init /\ [][Next]_vars

\* A batch run in which every thread that can take a step eventually takes
\* one and every engine that was spawned eventually exits.
FairSpec == InitBatch /\ [][NextBatch]_vars /\ WF_vars(NextBatch)

\* ------------------------------------------ download and its engine's pipes
\* Popen(cmd, stdout=PIPE, stderr=PIPE): each stream of the engine is a pipe
\* that holds up to PipeCap units; a write to a full pipe blocks.  The
\* engine has up to MaxWrite units to write to each stream.
MaxWrite == PipeCap + 1

\* download right after Popen, about to read the engine's standard output.
InitPipe ==
  /\ mode = "pipe"
  /\ urls = <<>>
  /\ config = DownloadConfig(U_yt, "YOUTUBE", None, "out", None, None)
  /\ max_workers = 1
  /\ request = NoRequest
  /\ files = {"out"}
  /\ pc = "caller"
  /\ unit = [j \in {1} |->
              Launched([NewUnit EXCEPT !.config = config, !.validated = TRUE],
                       files, TRUE)]
  /\ started = <<>>
  /\ last = <<>>
  /\ finished = {}
  /\ notified = <<>>
  /\ results = <<>>
  /\ outcome = NoOutcome
  /\ \E o \in 0..MaxWrite, e \in 0..MaxWrite, returncode \in {0, 1} :
       io = [NoIO EXCEPT !.left_out = o, !.left_err = e, !.engine = "running",
                         !.returncode = returncode, !.at = "stdout"]

\* The engine writes a unit of progress to its standard output.
WriteOut ==
  /\ mode = "pipe"
  /\ io.engine = "running"
  /\ io.left_out > 0
  /\ io.stdout < PipeCap
  /\ io' = [io EXCEPT !.left_out = @ - 1, !.stdout = @ + 1]
  /\ UNCHANGED <<mode, urls, config, max_workers, request, files, pc, unit,
                 started, last, finished, notified, results, outcome>>

\* The engine writes a unit of diagnostics to its standard error.
WriteErr ==
  /\ mode = "pipe"
  /\ io.engine = "running"
  /\ io.left_err > 0
  /\ io.stderr < PipeCap
  /\ io' = [io EXCEPT !.left_err = @ - 1, !.stderr = @ + 1]
  /\ UNCHANGED <<mode, urls, config, max_workers, request, files, pc, unit,
                 started, last, finished, notified, results, outcome>>

\* The engine has written everything and exits: its ends of the pipes close.
EngineExits ==
  /\ mode = "pipe"
  /\ io.engine = "running"
  /\ io.left_out = 0
  /\ io.left_err = 0
  /\ io' = [io EXCEPT !.engine = "exited"]
  /\ UNCHANGED <<mode, urls, config, max_workers, request, files, pc, unit,
                 started, last, finished, notified, results, outcome>>

\* `for line in process.stdout`: a line is there and is logged.
ReadLine ==
  /\ mode = "pipe"
  /\ io.at = "stdout"
  /\ io.stdout > 0
  /\ io' = [io EXCEPT !.stdout = @ - 1]
  /\ UNCHANGED <<mode, urls, config, max_workers, request, files, pc, unit,
                 started, last, finished, notified, results, outcome>>

\* `for line in process.stdout` ends: the pipe is empty and its write end
\* is closed.
EndOfOutput ==
  /\ mode = "pipe"
  /\ io.at = "stdout"
  /\ io.stdout = 0
  /\ io.engine = "exited"
  /\ io' = [io EXCEPT !.at = "wait"]
  /\ UNCHANGED <<mode, urls, config, max_workers, request, files, pc, unit,
                 started, last, finished, notified, results, outcome>>

\* process.wait() returns; a zero status returns True, another one goes on
\* to read the standard error.
Wait ==
  /\ mode = "pipe"
  /\ io.at = "wait"
  /\ io.engine = "exited"
  /\ IF io.returncode # 0
     THEN /\ io' = [io EXCEPT !.at = "stderr"]
          /\ UNCHANGED <<unit, last, notified>>
     ELSE /\ io' = [io EXCEPT !.at = "returned"]
          /\ Step(1, Exited(unit[1], io.returncode))
  /\ UNCHANGED <<mode, urls, config, max_workers, request, files, pc,
                 started, finished, results, outcome>>

\* process.stderr.read() to its end, then return False.
ReadErr ==
  /\ mode = "pipe"
  /\ io.at = "stderr"
  /\ io.engine = "exited"
  /\ io' = [io EXCEPT !.stderr = 0, !.at = "returned"]
  /\ Step(1, Exited(unit[1], io.returncode))
  /\ UNCHANGED <<mode, urls, config, max_workers, request, files, pc,
                 started, finished, results, outcome>>

NextPipe ==
  \/ WriteOut
  \/ WriteErr
  \/ EngineExits
  \/ ReadLine
  \/ EndOfOutput
  \/ Wait
  \/ ReadErr

\* download and one engine that writes a finite output and exits.
PipeSpec == InitPipe /\ [][NextPipe]_vars

\* Calls of detect_platform on the URLs of DetectUrls.
DetectSpec == InitDetect /\ [][Detect]_vars

\* ----------------------------------------------------------------- claims
InputUrls == {urls[i] : i \in 1..Len(urls)}

Faults == {"ValueError", "FileNotFoundError"}

\* download_batch has returned its mapping.
BatchReturned == mode = "batch" /\ pc = "returned"

\* The collection loop of download_batch has taken every future.
LoopDone ==
  /\ mode = "batch"
  /\ pc = "collect"
  /\ \A j \in Units : unit[j].phase = "collected"

\* The value the mapping holds for a URL.
ValueOf(d, url) == d[Get(d, url)][2]

\* The units of a URL.
UnitsOf(url) == {j \in Units : urls[j] = url}

\* C1: the mapping download_batch returns has exactly the distinct input
\* URLs as its keys, one entry each, whatever the outcomes of the units.
C1_KeysAreTheInputUrls ==
  BatchReturned =>
    /\ Keys(results) = InputUrls
    /\ Len(results) = Cardinality(InputUrls)

\* A batch with a repeated URL returns after units that raised, failed and
\* succeeded.
C1_Witness ==
  /\ BatchReturned
  /\ Len(results) < Len(urls)
  /\ \E j \in Units : unit[j].out = "ValueError"
  /\ \E j \in Units : unit[j].out = "False"
  /\ \E j \in Units : unit[j].out = "True"

\* C2: a unit that raises is recorded as False for its URL, the other
\* units still end with their own outcome recorded, and the fault never
\* leaves download_batch.
C2_FaultsAreIsolated ==
  mode = "batch" =>
    /\ pc # "aborted"
    /\ \A j \in Units :
         unit[j].phase = "collected" /\ unit[j].out \in Faults =>
           /\ urls[j] \in Keys(results)
           /\ ValueOf(results, urls[j]) = FALSE
    /\ (LoopDone \/ BatchReturned) =>
         \A j \in Units :
           /\ unit[j].phase = "collected"
           /\ unit[j].out \in Faults \cup {"True", "False"}
           /\ UnitsOf(urls[j]) = {j} =>
                ValueOf(results, urls[j]) = (unit[j].out = "True")

\* A batch returns in which one unit raised and another ran its engine to
\* a zero exit.
C2_Witness ==
  /\ BatchReturned
  /\ \E j, k \in Units :
       /\ unit[j].out = "ValueError"
       /\ unit[k].out = "True"
       /\ ValueOf(results, urls[j]) = FALSE
       /\ ValueOf(results, urls[k]) = TRUE

\* The false entries of a mapping.
FalseEntries(d) == {i \in 1..Len(d) : ~d[i][2]}

\* C3: once download_batch is called it returns, whatever the number of
\* URLs and workers, given that every spawned engine exits; and a batch of
\* three URLs on two workers in which one download fails (its engine exits
\* non-zero) and two succeed returns three entries, exactly one of them False.
C3_BatchCompletes ==
  /\ (pc = "submit") ~> (pc = "returned")
  /\ [](BatchReturned /\ Len(urls) = 3 /\ Cardinality(InputUrls) = 3
          /\ max_workers = 2
          /\ Cardinality({j \in Units : unit[j].out = "False"}) = 1
          /\ Cardinality({j \in Units : unit[j].out = "True"}) = 2
        => Len(results) = 3 /\ Cardinality(FalseEntries(results)) = 1)

\* Three distinct URLs on two workers: the third unit waits for a worker,
\* one engine exits non-zero, and the batch has returned.
C3_Witness ==
  /\ BatchReturned
  /\ Len(urls) = 3
  /\ Cardinality(InputUrls) = 3
  /\ max_workers = 2
  /\ Cardinality({j \in Units : unit[j].out = "False"}) = 1
  /\ Cardinality({j \in Units : unit[j].out = "True"}) = 2
  /\ Len(results) = 3

\* The entries a mapping holds for a URL.
EntriesFor(d, url) == {i \in 1..Len(d) : d[i][1] = url}

\* C4: every occurrence of a URL runs as a unit of its own, the returned
\* mapping holds one entry for the URL, and that entry is the outcome of the
\* attempt that completed last in time.
C4_LastCompletedWins ==
  BatchReturned =>
    \A url \in InputUrls :
      /\ \A j \in UnitsOf(url) : unit[j].phase = "collected"
      /\ Cardinality(EntriesFor(results, url)) = 1
      /\ ValueOf(results, url) = Recorded(unit[last[url]].out)

\* main has printed its summary and left.
Summarised == mode = "batch" /\ pc = "exited" /\ outcome.total >= 0

\* s lists elements of t in the order they have in t.
InOrderOf(s, t) ==
  \E at \in [1..Len(s) -> 1..Len(t)] :
    /\ \A i \in 1..Len(s) : t[at[i]] = s[i]
    /\ \A i, k \in 1..Len(s) : i < k => at[i] < at[k]

\* C5: the summary lists the failed URLs in the order they have in the input
\* list, whatever the order in which the units completed.
C5_FailedInInputOrder == Summarised => InOrderOf(outcome.failed, urls)

\* A unit has ended: its future holds a result or an exception.
Ended(j) == unit[j].phase \in {"done", "collected"}

\* C6: with one worker the units start and complete in input-list order
\* and at most one unit is executing at any time.
C6_OneWorkerRunsInOrder ==
  mode = "batch" /\ max_workers = 1 =>
    /\ Cardinality(Executing) <= 1
    /\ \A i \in 1..Len(started) : started[i] = i
    /\ \A j \in Units :
         j \in Executing \/ Ended(j) => \A i \in 1..(j - 1) : Ended(i)
    /\ \A i, k \in 1..Len(notified) : i < k => notified[i] < notified[k]

\* One worker, three units: the third is running its engine after the
\* first two ended, one of them after as_completed was entered.
C6_Witness ==
  /\ mode = "batch"
  /\ max_workers = 1
  /\ Len(urls) = 3
  /\ unit[3].phase = "running"
  /\ Ended(1) /\ Ended(2)
  /\ notified # <<>>

ConfigErrors == {"EmptyURL", "UnsupportedPlatform", "CookiesNotFound"}

\* C7: an invocation is built and an engine spawned only for a config whose
\* validation ran to its end and passed: a unit with a command or a process
\* was validated, has a non-empty URL and a platform other than UNKNOWN;
\* a unit whose validation raised has no command and no process.
C7_ValidatedBeforeBuildAndSpawn ==
  \A j \in Units :
    /\ unit[j].cmd # <<>> \/ unit[j].proc # "none" =>
         /\ unit[j].validated
         /\ unit[j].err = "none"
         /\ unit[j].config.url # <<>>
         /\ unit[j].config.platform # "UNKNOWN"
    /\ unit[j].err # "none" =>
         /\ unit[j].err \in ConfigErrors
         /\ unit[j].out \in Faults
         /\ unit[j].cmd = <<>>
         /\ unit[j].proc = "none"

\* A batch in which one unit runs its engine on a built command while
\* another was refused for its platform.
C7_Witness ==
  /\ mode = "batch"
  /\ \E j, k \in Units :
       /\ unit[j].proc = "running"
       /\ unit[j].cmd # <<>>
       /\ unit[k].err = "UnsupportedPlatform"

\* The config unit j is constructed with.
ConfigOf(j) ==
  IF mode = "batch" THEN DerivedConfig(urls[j], config) ELSE unit[j].config

\* No Downloader was constructed for unit j yet.
Unbuilt(j) == unit[j].phase \in {"pending", "queued", "init"}

\* A step in which Downloader(config), and so validate_config, ran for j.
ConstructionRan(j) == Unbuilt(j) /\ ~Unbuilt(j)'

\* What the HTTP handler creates itself before it constructs the Downloader.
Mkdtemp == IF mode = "http" THEN {TempDir} ELSE {}

\* C8 as stated: validation of a config whose platform is UNKNOWN fails with
\* UnsupportedPlatform, whatever its url, and creates no directory.
C8_UnknownIsUnsupported ==
  [][\A j \in Units :
       ConstructionRan(j) /\ ConfigOf(j)'.platform = "UNKNOWN" =>
         /\ unit'[j].err = "UnsupportedPlatform"
         /\ files' \subseteq files \cup Mkdtemp]_vars

\* C8: validation of a config whose platform is UNKNOWN raises ValueError,
\* for the empty URL when the url is empty and for the unsupported platform
\* otherwise, and creates no directory.
C8_UnknownIsRefused ==
  [][\A j \in Units :
       ConstructionRan(j) /\ ConfigOf(j)'.platform = "UNKNOWN" =>
         /\ unit'[j].err = IF ConfigOf(j)'.url = <<>> THEN "EmptyURL"
                           ELSE "UnsupportedPlatform"
         /\ unit'[j].out = "ValueError"
         /\ files' \subseteq files \cup Mkdtemp]_vars

\* A batch whose units were refused, one for its empty URL and one for its
\* platform, both with platform UNKNOWN, and no output directory exists.
C8_Witness ==
  /\ mode = "batch"
  /\ config.output_dir \notin files
  /\ \E j, k \in Units :
       /\ ConfigOf(j).platform = "UNKNOWN"
       /\ ConfigOf(j).url = <<>>
       /\ unit[j].err = "EmptyURL"
       /\ ConfigOf(k).platform = "UNKNOWN"
       /\ unit[k].err = "UnsupportedPlatform"

\* C9: download returns True only for an engine that was spawned and exited
\* with status 0; a non-zero exit and a failure to spawn return False; once
\* the Downloader is constructed, download ends with a value, never with an
\* exception.
C9_TrueOnlyOnZeroExit ==
  [][\A j \in Units :
       unit[j].out = "none" /\ unit'[j].out # "none" =>
         /\ unit'[j].out = "True" =>
              /\ unit[j].proc = "running"
              /\ mode # "batch" => unit'[j].proc = "exit0"
         /\ unit'[j].proc \in {"exit1", "failed"} => unit'[j].out = "False"
         /\ unit[j].phase \in {"ready", "running"} =>
              unit'[j].out \in {"True", "False"}]_vars

\* A caller's download returned True after its engine exited with status 0.
C9_Witness ==
  /\ mode = "single"
  /\ unit[1].proc = "exit0"
  /\ unit[1].out = "True"

\* The positions of the cookie flags in a command.
CookieFlags(cmd) ==
  {i \in 1..Len(cmd) : cmd[i] \in {"--cookies", "--cookies-from-browser"}}

Has(cmd, flag) == \E i \in 1..Len(cmd) : cmd[i] = flag

\* The command passes `--cookies <path>`.
PassesFile(cmd, path) ==
  \E i \in 1..(Len(cmd) - 1) : cmd[i] = "--cookies" /\ cmd[i + 1] = path

\* C10: a built command has at most one cookie flag, chosen by the first
\* rule that applies: the config's cookies file when set and existing, for
\* every platform; else the default cookie file when it exists, for YouTube
\* only; else the browser flag, for Instagram only; else none.
C10_CookiePrecedence ==
  \A j \in Units :
    unit[j].cmd # <<>> =>
      LET c == unit[j].config
          cmd == unit[j].cmd
      IN  /\ Cardinality(CookieFlags(cmd)) <= 1
          /\ IF c.cookies_file # None /\ c.cookies_file \in files
             THEN /\ PassesFile(cmd, c.cookies_file)
                  /\ ~Has(cmd, "--cookies-from-browser")
             ELSE IF c.platform = "YOUTUBE" /\ COOKIES_FILE \in files
             THEN /\ PassesFile(cmd, COOKIES_FILE)
                  /\ ~Has(cmd, "--cookies-from-browser")
             ELSE IF c.platform = "INSTAGRAM"
             THEN /\ Has(cmd, "--cookies-from-browser")
                  /\ ~Has(cmd, "--cookies")
             ELSE CookieFlags(cmd) = {}

\* An Instagram command built with the config's own, existing cookies file.
C10_Witness ==
  /\ mode = "single"
  /\ unit[1].config.platform = "INSTAGRAM"
  /\ unit[1].config.cookies_file \in files
  /\ PassesFile(unit[1].cmd, unit[1].config.cookies_file)

\* The command passes `-f <selector>`, once.
SelectsFormat(cmd, selector) ==
  /\ \E i \in 1..(Len(cmd) - 1) : cmd[i] = "-f" /\ cmd[i + 1] = selector
  /\ Cardinality({i \in 1..Len(cmd) : cmd[i] = "-f"}) = 1

\* The selector of a config without a format of its own.
DefaultSelector(c) ==
  IF c.download_type = "AUDIO" THEN "bestaudio/best"
  ELSE IF c.platform = "YOUTUBE"
  THEN "bestvideo[ext=mp4]+bestaudio[ext=m4a]/best[ext=mp4]/best"
  ELSE "best"

\* C11 as stated: the selector is config.format whenever a format is set
\* (is not None), and the default of the type and platform otherwise.
C11_FormatVerbatimWhenSet ==
  \A j \in Units :
    unit[j].cmd # <<>> =>
      LET c == unit[j].config IN
      IF c.format # None THEN SelectsFormat(unit[j].cmd, c.format)
      ELSE SelectsFormat(unit[j].cmd, DefaultSelector(c))

\* C11: the selector is config.format verbatim whenever config.format is a
\* non-empty string; when it is None or empty the selector is bestaudio/best
\* for AUDIO, the YouTube chain for YouTube with any other or no type, and
\* best for every other platform with any other or no type.
C11_FormatSelector ==
  \A j \in Units :
    unit[j].cmd # <<>> =>
      LET c == unit[j].config IN
      IF c.format # None /\ c.format # ""
      THEN SelectsFormat(unit[j].cmd, c.format)
      ELSE SelectsFormat(unit[j].cmd, DefaultSelector(c))

\* A YouTube POST config with the empty format was built with the YouTube
\* chain.
C11_Witness ==
  /\ mode = "single"
  /\ unit[1].config.format = ""
  /\ unit[1].config.platform = "YOUTUBE"
  /\ unit[1].config.download_type = "POST"
  /\ SelectsFormat(unit[1].cmd, YouTubeFormat)

\* The same command was built twice for unit j: by a direct call of
\* build_yt_dlp_command, then by download.
BuiltTwice(j) == unit[j].plan # <<>> /\ unit[j].cmd # <<>>

\* The cookie files build_yt_dlp_command may consult for a config.
Consulted(c) ==
  {c.cookies_file} \cup (IF c.platform = "YOUTUBE" THEN {COOKIES_FILE} ELSE {})

\* C12 as stated: two builds for the same config return the same list,
\* whatever happened between the two calls.
C12_BuildIsDeterministic ==
  \A j \in Units : BuiltTwice(j) => unit[j].plan = unit[j].cmd

\* C12: two builds for the same config return the same list provided the
\* config's cookies file and, for YouTube, the default cookie file exist at
\* both calls or at neither; no other change of the filesystem matters.
C12_BuildDependsOnCookieFiles ==
  \A j \in Units :
    /\ BuiltTwice(j)
    /\ unit[j].seen \cap Consulted(unit[j].config)
         = files \cap Consulted(unit[j].config)
    => unit[j].plan = unit[j].cmd

\* A Vimeo config built twice to the same list although the default cookie
\* file appeared between the two calls.
C12_Witness ==
  /\ mode = "single"
  /\ BuiltTwice(1)
  /\ unit[1].config.platform = "VIMEO"
  /\ COOKIES_FILE \in files \ unit[1].seen
  /\ unit[1].plan = unit[1].cmd

\* The host of a URL: its network location without the user information
\* ("user@") in front of it.
hostname(url) ==
  LET n == netloc(url)
      ats == {i \in 1..Len(n) : n[i] = "@"}
  IN  IF ats = {} THEN n
      ELSE SubSeq(n, (CHOOSE i \in ats : \A k \in ats : k <= i) + 1, Len(n))

\* C13: detect_platform returns the platform of the first table entry whose
\* key occurs in the lower-cased host of the URL, UNKNOWN when there is none,
\* and nothing else: it does not raise, and what stands outside the host
\* does not count.
C13_DetectByHost ==
  mode = "detect" /\ pc = "returned" =>
    outcome.platform =
      FirstMatch(SUPPORTED_PLATFORMS, LowerText(hostname(request.url)))

\* The template with the url of unit j, and with the platform detected for
\* that url when the template names none.
TemplateFor(j) ==
  [config EXCEPT
     !.url = urls[j],
     !.platform = IF config.platform = "UNKNOWN" THEN detect_platform(urls[j])
                  ELSE config.platform]

\* C14: a batch unit runs on the template with its own url and, when the
\* template's platform is UNKNOWN, the platform detected for that url; no
\* other field differs, and no step of the batch changes the template.
C14_UnitsRunOnDerivedConfig ==
  [][mode = "batch" =>
       /\ config' = config
       /\ \A j \in Units :
            unit'[j].phase = "running" => unit'[j].config = TemplateFor(j)]_vars

\* Under a template without a platform, a unit runs as YouTube while
\* another was refused: the platform is per URL.
C14_Witness ==
  /\ mode = "batch"
  /\ config.platform = "UNKNOWN"
  /\ \E j, k \in Units :
       /\ unit[j].phase = "running"
       /\ unit[j].config.platform = "YOUTUBE"
       /\ unit[j].config.url = urls[j]
       /\ unit[k].err = "UnsupportedPlatform"

\* C15: once download has returned, a failure or a missing file is answered
\* by 500 with the temporary directory already removed; a file is answered
\* by 200 with the directory and the file still there while the response
\* streams, and the directory is removed when the stream closes.
C15_CleanupAroundResponse ==
  [][mode = "http" =>
       /\ pc = "downloading" /\ pc' # pc =>
            IF unit[1].out = "True" /\ VideoFile \in files
            THEN /\ pc' = "streaming"
                 /\ outcome'.status = 200
                 /\ files' = files
            ELSE /\ pc' = "responded"
                 /\ outcome'.status = 500
                 /\ TempDir \notin files'
                 /\ VideoFile \notin files'
       /\ pc' = "streaming" => {TempDir, VideoFile} \subseteq files'
       /\ pc = "streaming" /\ pc' # pc =>
            /\ pc' = "closed"
            /\ outcome'.status = 200
            /\ TempDir \notin files'
            /\ VideoFile \notin files']_vars

\* The download succeeded without leaving a file: 500, directory removed.
C15_Witness ==
  /\ mode = "http"
  /\ pc = "responded"
  /\ unit[1].out = "True"
  /\ outcome.status = 500
  /\ TempDir \notin files

\* C16: the run exits with code 0 exactly when download_batch ran and every
\* attempt it made succeeded, and with code 1 otherwise: an attempt failed
\* (also when another attempt for the same URL succeeded), the URL list was
\* empty or the input file could not be read.
C16_ExitZeroIffAllSucceeded ==
  mode = "batch" /\ pc = "exited" =>
    /\ outcome.code \in {0, 1}
    /\ outcome.code = 0 <=>
         /\ outcome.total >= 0
         /\ \A j \in Units : unit[j].out = "True"

\* C16: the run exits with code 0 exactly when download_batch ran and every
\* entry of the mapping it returned is True, and with code 1 otherwise: an
\* entry is False, the URL list was empty or the input file could not be
\* read.  The mapping holds one entry per distinct URL, so a failed attempt
\* for a URL given twice does not by itself make the code 1.
C16_ExitZeroIffAllEntriesTrue ==
  mode = "batch" /\ pc = "exited" =>
    /\ outcome.code \in {0, 1}
    /\ outcome.code = 0 <=>
         /\ outcome.total >= 0
         /\ \A i \in 1..Len(results) : results[i][2]

\* A run that exits with code 0 although one of the two attempts for the
\* same URL failed.
C16_Witness ==
  /\ mode = "batch"
  /\ pc = "exited"
  /\ outcome.code = 0
  /\ \E j \in Units : unit[j].out = "False"

\* C17: download and its engine never wait on each other: until download
\* has returned, the engine can write or exit, or download can read a line,
\* see the end of the output, or see the engine's exit.
C17_NeverWaitOnEachOther ==
  mode = "pipe" => io.at = "returned" \/ ENABLED NextPipe

\* C18: at most max_workers units of a batch are executing at any moment,
\* and a worker takes a unit only while fewer than max_workers are.
C18_AtMostMaxWorkersExecuting ==
  [][mode = "batch" =>
       /\ Cardinality(Executing') <= max_workers
       /\ started' # started => Cardinality(Executing) < max_workers]_vars

\* Two workers, three units taken so far, two of them executing: the third
\* was taken after one of the first two had ended.
C18_Witness ==
  /\ mode = "batch"
  /\ max_workers = 2
  /\ Len(started) = 3
  /\ Cardinality(Executing) = 2
  /\ \E j \in Units : Ended(j)

\* C19: when download returns for a unit whose engine was spawned, the
\* engine has been waited for: its exit status was collected.
C19_ReapedBeforeReturn ==
  \A j \in Units :
    unit[j].out \in {"True", "False"} /\ unit[j].proc \notin {"none", "failed"} =>
      unit[j].proc \in {"exit0", "exit1"}

\* C20: when a POST /api/download request has finished (the response was
\* returned and, for a file, its stream closed) the temporary directory
\* the request made no longer exists.
C20_TempDirRemoved ==
  mode = "http" /\ pc \in {"responded", "closed"} => TempDir \notin files

\* C21: for every URL the HTTP download endpoint handles, the platform its
\* own detect_platform puts in the config is the platform
\* Downloader.detect_platform returns for that URL.
C21_ApiDetectsAsCore ==
  mode = "http" /\ pc # "request" /\ outcome.status # 400 =>
    unit[1].config.platform = detect_platform(request.url)

\* The first check of validate_config that a config fails on a filesystem,
\* in the order empty URL, UNKNOWN platform, cookies file; "none" when it
\* passes them all.
FirstFailure(c, fs) ==
  IF c.url = <<>> THEN "EmptyURL"
  ELSE IF c.platform = "UNKNOWN" THEN "UnsupportedPlatform"
  ELSE IF c.cookies_file # None /\ c.cookies_file \notin fs THEN "CookiesNotFound"
  ELSE "none"

\* C22 as stated: validate_config fails on the first check, in the order
\* empty URL, UNKNOWN platform, cookies file, that the config does not pass,
\* and a validation that fails leaves the filesystem as it was: the output
\* directory is created by the validations that succeed only.
C22_FailedValidationChangesNothing ==
  [][\A j \in Units :
       ConstructionRan(j) =>
         LET c == ConfigOf(j)'
             before == files \cup Mkdtemp
         IN  /\ unit'[j].err = FirstFailure(c, before)
             /\ files' = IF unit'[j].err # "none" THEN before
                         ELSE before \cup {c.output_dir}]_vars

\* C22: validate_config fails on the first check, in the order empty URL,
\* UNKNOWN platform, cookies file, that the config does not pass; the
\* output directory is made between the platform check and the cookies
\* check, so a validation that fails on the URL or on the platform leaves
\* the filesystem as it was, and one that fails on the cookies file has
\* created the output directory, as one that succeeds has.
C22_ChecksInOrder ==
  [][\A j \in Units :
       ConstructionRan(j) =>
         LET c == ConfigOf(j)'
             before == files \cup Mkdtemp
         IN  /\ unit'[j].err = FirstFailure(c, before)
             /\ files' = IF unit'[j].err \in {"EmptyURL", "UnsupportedPlatform"}
                         THEN before
                         ELSE before \cup {c.output_dir}]_vars

\* A batch that started on an empty filesystem: one unit was refused for
\* its empty URL, another for its missing cookies file, and the output
\* directory exists.
C22_Witness ==
  /\ mode = "batch"
  /\ config.output_dir \in files
  /\ \E j, k \in Units :
       /\ unit[k].err = "EmptyURL"
       /\ unit[j].err = "CookiesNotFound"
       /\ ConfigOf(j).platform # "UNKNOWN"

====
